---- MODULE Spec2Model ----
(***************************************************************************)
(* A model of the JSON lexer (src/parser/src/token.rs) and of the          *)
(* recursive-descent parser built on it (src/json_parser/src/parser.rs,    *)
(* src/json_parser/src/error.rs).                                          *)
(*                                                                         *)
(* A character is a one-character string; the input text is a sequence of  *)
(* characters.  Byte offsets (position, read_position, slice bounds) are   *)
(* kept apart from character counts (column) because the code mixes them.  *)
(***************************************************************************)
EXTENDS Integers, Sequences, FiniteSets, TLC

VARIABLES
  input,          \* the text handed to Lexer::new / Parser::new
  lexer,          \* the Lexer's fields
  current_token,  \* Parser.current_token
  peek_token,     \* Parser.peek_token
  stack,          \* the call stack of the recursive descent, innermost last
  ret,            \* the value returned by the call that just finished
  result,         \* what Parser::parse returned (tag "none" while it runs)
  pc,             \* "lex": the Lexer is pulled directly; "parse", "run",
                  \* "done": Parser::parse before, during and after its run
  tokens          \* history: every token Lexer::next_token returned, in order,
                  \* each with the index of its first character in the input

vars == <<input, lexer, current_token, peek_token, stack, ret,
          result, pc, tokens>>

(***************************************************************************)
(* Bounds of the model.                                                    *)
(***************************************************************************)
MaxFrags == 4     \* fragments concatenated into one input text
MaxRun == 4       \* characters of a number run
MaxStr == 4       \* fragments following an opening double-quote
MaxMembers == 3   \* properties of an object text, elements of an array text
ExtraPulls == 2   \* direct next_token calls made after Eof was returned

(***************************************************************************)
(* Characters.                                                             *)
(***************************************************************************)
None == "None"    \* Option::None for Lexer.ch (no character is 4 long)

AsciiDigit == {"0", "1", "2", "3", "4", "5", "6", "7", "8", "9"}

AsciiLowercase ==
  {"a", "b", "c", "d", "e", "f", "g", "h", "i", "j", "k", "l", "m", "n", "o",
   "p", "q", "r", "s", "t", "u", "v", "w", "x", "y", "z"}

AsciiHexDigit ==
  AsciiDigit \cup {"a", "b", "c", "d", "e", "f", "A", "B", "C", "D", "E", "F"}

NumberRunChar == AsciiDigit \cup {".", "-", "+", "e", "E"}

\* The escape characters without the double-quote.
EscapeCharNoQuote == {"\\", "/", "b", "f", "n", "r", "t"}

EscapeChar == {"\"", "\\", "/", "b", "f", "n", "r", "t"}

\* char::len_utf8: the multi-byte characters the inputs use.
len_utf8(c) == IF c = "è" THEN 2 ELSE IF c = "€" THEN 3 ELSE 1

RECURSIVE ByteOffset(_, _)
\* Byte offset just after the first n characters of text s.
ByteOffset(s, n) == IF n = 0 THEN 0 ELSE ByteOffset(s, n - 1) + len_utf8(s[n])

\* str::len: the length in bytes.
str_len(s) == ByteOffset(s, Len(s))

IsCharBoundary(a) == \E n \in 0..Len(input) : ByteOffset(input, n) = a

CharsBefore(a) == CHOOSE n \in 0..Len(input) : ByteOffset(input, n) = a

\* &self.input[a..b] succeeds iff a <= b <= len and both lie on char boundaries.
SliceOk(a, b) == a <= b /\ IsCharBoundary(a) /\ IsCharBoundary(b)

slice(a, b) ==
  IF SliceOk(a, b) THEN SubSeq(input, CharsBefore(a) + 1, CharsBefore(b))
  ELSE <<>>

(***************************************************************************)
(* Tokens.                                                                 *)
(***************************************************************************)
NoReason == [t |-> "None", v |-> "None", col |-> 0]

illegal_number(variant) == [t |-> "Number", v |-> variant, col |-> 0]

illegal_string(variant, column) == [t |-> "String", v |-> variant, col |-> column]

Token(kind, reason, origin, start_column) ==
  [kind |-> kind, reason |-> reason, origin |-> origin,
   start_column |-> start_column]

\* Token::default(): kind Illegal(None), empty origin, start_column 0.
TokenDefault == Token("Illegal", NoReason, <<>>, 0)

(***************************************************************************)
(* The lexer.  `fault` records that a slice was out of range or that an    *)
(* unsigned subtraction went below zero inside the lexer.                  *)
(***************************************************************************)
\* `let v = x; f(v)`: x is evaluated once and f is applied to its value.
With(x, f(_)) == CHOOSE r \in { f(v) : v \in {x} } : TRUE

Faulted(l, cond) == [l EXCEPT !.fault = @ \/ cond]

\* read_char, were the column counted at the end of the input too.
read_char_counts_end(l) ==
  IF l.chars < Len(input)
  THEN LET ch == input[l.chars + 1] IN
       [l EXCEPT !.ch = ch,
                 !.column = @ + 1,
                 !.position = l.read_position,
                 !.read_position = @ + len_utf8(ch),
                 !.chars = @ + 1]
  ELSE [l EXCEPT !.ch = None,
                 !.column = @ + 1,
                 !.position = l.read_position,
                 !.read_position = @ + 1]

read_char(l) ==
  IF l.chars < Len(input)
  THEN LET ch == input[l.chars + 1] IN
       [l EXCEPT !.ch = ch,
                 !.column = @ + 1,
                 !.position = l.read_position,
                 !.read_position = @ + len_utf8(ch),
                 !.chars = @ + 1]
  ELSE [l EXCEPT !.ch = None,
                 !.position = l.read_position,
                 !.read_position = @ + 1]

LexerNew ==
  read_char([position |-> 0, read_position |-> 0, row |-> 1, column |-> 0,
             ch |-> None, chars |-> 0, fault |-> FALSE])

\* A newline arm that resets the column but forgets to count the row.
skip_newline_same_row(l) == [l EXCEPT !.column = 0]

\* The newline arm of skip_whitespace.
skip_newline(l) == [l EXCEPT !.row = @ + 1, !.column = 0]

RECURSIVE skip_whitespace(_)
skip_whitespace(l) ==
  IF l.ch \in {" ", "\t", "\r"}
  THEN With(read_char(l), LAMBDA m : skip_whitespace(m))
  ELSE IF l.ch = "\n"
  THEN With(read_char(skip_newline(l)), LAMBDA m : skip_whitespace(m))
  ELSE l

RECURSIVE read_while(_, _)
\* while matches!(self.ch, Some(c) if c in class) { self.read_char() }
read_while(l, class) ==
  IF l.ch \in class
  THEN With(read_char(l), LAMBDA m : read_while(m, class))
  ELSE l

read_ident(l) ==
  With(read_while(l, AsciiLowercase), LAMBDA m :
    [lexer |-> Faulted(m, ~SliceOk(l.position, m.position)),
     origin |-> slice(l.position, m.position)])

read_number(l) ==
  With(read_while(l, NumberRunChar), LAMBDA m :
    [lexer |-> Faulted(m, ~SliceOk(l.position, m.position)),
     origin |-> slice(l.position, m.position)])

HexDigitValue(c) ==
  CASE c = "0" -> 0 [] c = "1" -> 1 [] c = "2" -> 2 [] c = "3" -> 3
    [] c = "4" -> 4 [] c = "5" -> 5 [] c = "6" -> 6 [] c = "7" -> 7
    [] c = "8" -> 8 [] c = "9" -> 9
    [] c \in {"a", "A"} -> 10 [] c \in {"b", "B"} -> 11
    [] c \in {"c", "C"} -> 12 [] c \in {"d", "D"} -> 13
    [] c \in {"e", "E"} -> 14 [] c \in {"f", "F"} -> 15

RECURSIVE from_str_radix_16(_)
from_str_radix_16(s) ==
  IF s = <<>> THEN 0
  ELSE 16 * from_str_radix_16(SubSeq(s, 1, Len(s) - 1)) + HexDigitValue(s[Len(s)])

MaxCodepoint == 1114111   \* 0x10FFFF

RECURSIVE hex_loop(_, _)
\* for _ in 0..4 { if !hexdigit { return illegal } self.read_char() }
hex_loop(l, n) ==
  IF n = 0 THEN [lexer |-> l, ok |-> TRUE]
  ELSE IF l.ch \notin AsciiHexDigit THEN [lexer |-> l, ok |-> FALSE]
  ELSE With(read_char(l), LAMBDA m : hex_loop(m, n - 1))

\* The column is_legal_unicode reports.
unicode_column(start_column) == start_column - 2

\* is_legal_unicode, were the surrogates D800..DFFF refused as char::from_u32
\* refuses them.
is_legal_unicode_no_surrogates(l) ==
  With(hex_loop(l, 4), LAMBDA r :
    LET start_pos == l.position
        start_column == l.column
        m == r.lexer
        bad == [lexer |-> Faulted(m, unicode_column(start_column) < 0),
                reason |-> illegal_string("InvalidUnicode",
                                          unicode_column(start_column))]
    IN IF ~r.ok THEN bad
       ELSE IF ~SliceOk(start_pos, m.position)
            THEN [lexer |-> Faulted(m, TRUE), reason |-> NoReason]
       ELSE IF /\ from_str_radix_16(slice(start_pos, m.position)) <= MaxCodepoint
               /\ from_str_radix_16(slice(start_pos, m.position)) \notin 55296..57343
            THEN [lexer |-> m, reason |-> NoReason]
       ELSE bad)

is_legal_unicode(l) ==
  With(hex_loop(l, 4), LAMBDA r :
    LET start_pos == l.position
        start_column == l.column
        m == r.lexer
        bad == [lexer |-> Faulted(m, unicode_column(start_column) < 0),
                reason |-> illegal_string("InvalidUnicode",
                                          unicode_column(start_column))]
    IN IF ~r.ok THEN bad
       ELSE IF ~SliceOk(start_pos, m.position)
            THEN [lexer |-> Faulted(m, TRUE), reason |-> NoReason]
       ELSE IF from_str_radix_16(slice(start_pos, m.position)) <= MaxCodepoint
            THEN [lexer |-> m, reason |-> NoReason]
       ELSE bad)

\* The column read_string reports for an invalid escape.
escape_column(column) == column - 1

RECURSIVE string_loop(_, _)
\* The `while let Some(ch) = self.ch` loop of read_string.
string_loop(l, illegal_reason) ==
  IF l.ch = None
  THEN [lexer |-> l, illegal_reason |-> illegal_reason,
        has_closing_quote |-> FALSE]
  ELSE IF l.ch = "\""
  THEN [lexer |-> read_char(l), illegal_reason |-> illegal_reason,
        has_closing_quote |-> TRUE]
  ELSE IF l.ch = "\\"
  THEN With(read_char(l), LAMBDA a :
         IF a.ch \in EscapeChar
         THEN With(read_char(a), LAMBDA m : string_loop(m, illegal_reason))
         ELSE IF illegal_reason = NoReason
         THEN IF a.ch = "u"
              THEN With(is_legal_unicode(read_char(a)), LAMBDA u :
                     string_loop(u.lexer, u.reason))
              ELSE With(Faulted(a, escape_column(a.column) < 0), LAMBDA m :
                     string_loop(m, illegal_string("InvalidEscape",
                                                   escape_column(a.column))))
         ELSE string_loop(a, illegal_reason))
  ELSE IF l.ch = "\t" /\ illegal_reason = NoReason
  THEN With(read_char(l), LAMBDA m :
         string_loop(m, illegal_string("UnescapedTab", l.column)))
  ELSE IF l.ch = "\n" /\ illegal_reason = NoReason
  THEN With(read_char(l), LAMBDA m :
         string_loop(m, illegal_string("UnescapedNewLine", l.column)))
  ELSE With(read_char(l), LAMBDA m : string_loop(m, illegal_reason))

\* A missing-closing-quote column taken two back, as is_legal_unicode does.
closing_quote_column_two_back(start_column) == start_column - 2

\* The column read_string reports for a missing closing quote.
closing_quote_column(start_column) == start_column - 1

read_string(l) ==
  With(read_char(l), LAMBDA a :     \* consume opening double-quote
    With(string_loop(a, NoReason), LAMBDA r :
      LET start_pos == a.position
          start_column == a.column
          m == r.lexer
      IN IF r.has_closing_quote
         THEN [lexer |-> Faulted(m, m.position < 1
                                    \/ ~SliceOk(start_pos, m.position - 1)),
               str |-> slice(start_pos, m.position - 1),
               reason |-> r.illegal_reason]
         ELSE [lexer |-> Faulted(m, ~SliceOk(start_pos, m.position)
                                    \/ closing_quote_column(start_column) < 0),
               str |-> slice(start_pos, m.position),
               reason |-> illegal_string("MissingClosingQuote",
                                         closing_quote_column(start_column))]))

HasDotExp(bytes) ==
  \E i \in 1..(Len(bytes) - 1) : bytes[i] = "." /\ bytes[i + 1] \in {"e", "E"}

\* enum TokenKind
TokenKinds ==
  {"Illegal", "Eof", "Comma", "Colon", "LBrace", "RBrace", "LBracket",
   "RBracket", "String", "Number", "True", "False", "Null"}

\* A number match whose trailing-dot arm was moved above the leading-zero arm.
number_kind_dot_first(num) ==
  LET n == Len(num) IN
  IF n >= 1 /\ num[n] = "." THEN illegal_number("MissingFraction")
  ELSE IF n >= 2 /\ num[1] = "0" /\ num[2] \in AsciiDigit
  THEN illegal_number("LeadingZero")
  ELSE IF n >= 2 /\ num[1] = "0" /\ num[2] \in {"e", "E"}
  THEN illegal_number("MissingExponent")
  ELSE IF n >= 2 /\ num[1] = "-" /\ num[2] = "."
  THEN illegal_number("InvalidFractionPart")
  ELSE IF n >= 1 /\ num[n] = "-" THEN illegal_number("MinusMissingDigit")
  ELSE IF n >= 1 /\ num[n] = "+" THEN illegal_number("MissingExponent")
  ELSE IF HasDotExp(num) THEN illegal_number("MissingFraction")
  ELSE NoReason

\* The `match num.as_bytes()` of next_token: the first matching arm wins.
number_kind(num) ==
  LET n == Len(num) IN
  IF n >= 2 /\ num[1] = "0" /\ num[2] \in AsciiDigit
  THEN illegal_number("LeadingZero")
  ELSE IF n >= 2 /\ num[1] = "0" /\ num[2] \in {"e", "E"}
  THEN illegal_number("MissingExponent")
  ELSE IF n >= 2 /\ num[1] = "-" /\ num[2] = "."
  THEN illegal_number("InvalidFractionPart")
  ELSE IF n >= 1 /\ num[n] = "." THEN illegal_number("MissingFraction")
  ELSE IF n >= 1 /\ num[n] = "-" THEN illegal_number("MinusMissingDigit")
  ELSE IF n >= 1 /\ num[n] = "+" THEN illegal_number("MissingExponent")
  ELSE IF HasDotExp(num) THEN illegal_number("MissingFraction")
  ELSE NoReason

Delimiter(ch) ==
  CASE ch = "{" -> "LBrace" [] ch = "}" -> "RBrace"
    [] ch = "[" -> "LBracket" [] ch = "]" -> "RBracket"
    [] ch = ":" -> "Colon" [] ch = "," -> "Comma"
    [] OTHER -> "Illegal"

\* The kind of an identifier, were a keyword recognised by its first letters.
ident_kind_prefix(ident) ==
  IF Len(ident) >= 4 /\ SubSeq(ident, 1, 4) = <<"t", "r", "u", "e">>
  THEN "True"
  ELSE IF Len(ident) >= 5 /\ SubSeq(ident, 1, 5) = <<"f", "a", "l", "s", "e">>
  THEN "False"
  ELSE IF Len(ident) >= 4 /\ SubSeq(ident, 1, 4) = <<"n", "u", "l", "l">>
  THEN "Null"
  ELSE "Illegal"

ident_kind(ident) ==
  IF ident = <<"t", "r", "u", "e">> THEN "True"
  ELSE IF ident = <<"f", "a", "l", "s", "e">> THEN "False"
  ELSE IF ident = <<"n", "u", "l", "l">> THEN "Null"
  ELSE "Illegal"

\* Lexer::next_token: the lexer afterwards and the token returned.
next_token(l0) ==
  With(skip_whitespace(l0), LAMBDA l :
    LET start_column == l.column IN
    IF l.ch = "\""
    THEN With(read_string(l), LAMBDA r :
           [lexer |-> r.lexer,
            token |-> Token(IF r.reason = NoReason THEN "String" ELSE "Illegal",
                            r.reason, r.str, start_column)])
    ELSE IF l.ch \in {"t", "f", "n"}
    THEN With(read_ident(l), LAMBDA r :
           [lexer |-> r.lexer,
            token |-> Token(ident_kind(r.origin), NoReason, r.origin,
                            start_column)])
    ELSE IF l.ch \in AsciiDigit \cup {"-"}
    THEN With(read_number(l), LAMBDA r :
           [lexer |-> r.lexer,
            token |-> Token(IF number_kind(r.origin) = NoReason
                            THEN "Number" ELSE "Illegal",
                            number_kind(r.origin), r.origin, start_column)])
    ELSE IF Delimiter(l.ch) = "Illegal" /\ l.position >= str_len(input)
    THEN [lexer |-> read_char(l),
          token |-> Token("Eof", NoReason, <<>>, start_column + 1)]
    ELSE [lexer |-> read_char(Faulted(l, ~SliceOk(l.position, l.read_position))),
          token |-> Token(Delimiter(l.ch), NoReason,
                          slice(l.position, l.read_position), start_column)])

(***************************************************************************)
(* Numbers: str::parse::<f64>.  A value is kept as sign, mantissa and      *)
(* decimal exponent in normal form (no trailing zero in the mantissa), so  *)
(* that two texts give equal values exactly when the floats are equal.     *)
(* Values beyond the f64 range saturate to infinity or to zero; rounding   *)
(* among subnormals is not modelled.                                       *)
(***************************************************************************)
RECURSIVE DigitsEnd(_, _)
\* The first index at or after i that holds no ASCII digit.
DigitsEnd(s, i) ==
  IF i <= Len(s) /\ s[i] \in AsciiDigit THEN DigitsEnd(s, i + 1) ELSE i

RECURSIVE DecimalValue(_)
DecimalValue(s) ==
  IF s = <<>> THEN 0
  ELSE 10 * DecimalValue(SubSeq(s, 1, Len(s) - 1)) + HexDigitValue(s[Len(s)])

RECURSIVE NumDigits(_)
NumDigits(m) == IF m < 10 THEN 1 ELSE 1 + NumDigits(m \div 10)

RECURSIVE Pow10(_)
Pow10(k) == IF k <= 0 THEN 1 ELSE 10 * Pow10(k - 1)

F64MaxExp10 == 308      \* f64::MAX is 1.7976931348623157e308
F64MaxLead9 == 179769313
F64MinExp10 == -324     \* half the least subnormal is 2.4703282292062327e-324
F64MinLead9 == 247032822

Lead9(m) == m * Pow10(9 - NumDigits(m))

RECURSIVE Normalize(_, _, _)
Normalize(neg, m, e) ==
  IF m = 0 THEN [cls |-> "zero", neg |-> FALSE, m |-> 0, e |-> 0]
  ELSE IF m % 10 = 0 THEN Normalize(neg, m \div 10, e + 1)
  ELSE LET a == e + NumDigits(m) - 1 IN
       IF a > F64MaxExp10 \/ (a = F64MaxExp10 /\ Lead9(m) > F64MaxLead9)
       THEN [cls |-> "inf", neg |-> neg, m |-> 0, e |-> 0]
       ELSE IF a < F64MinExp10 \/ (a = F64MinExp10 /\ Lead9(m) <= F64MinLead9)
       THEN [cls |-> "zero", neg |-> FALSE, m |-> 0, e |-> 0]
       ELSE [cls |-> "finite", neg |-> neg, m |-> m, e |-> e]

\* The decimal grammar of f64::from_str restricted to the characters a number
\* run can hold: [sign] (digits | digits '.' digits* | '.' digits) [exp].
parse_f64(s) ==
  LET n == Len(s)
      signed == n >= 1 /\ s[1] \in {"+", "-"}
      neg == n >= 1 /\ s[1] = "-"
      i0 == IF signed THEN 2 ELSE 1
      i1 == DigitsEnd(s, i0)
      hasDot == i1 <= n /\ s[i1] = "."
      i2 == IF hasDot THEN DigitsEnd(s, i1 + 1) ELSE i1
      intDigits == SubSeq(s, i0, i1 - 1)
      fracDigits == IF hasDot THEN SubSeq(s, i1 + 1, i2 - 1) ELSE <<>>
      hasExp == i2 <= n /\ s[i2] \in {"e", "E"}
      expSigned == hasExp /\ i2 + 1 <= n /\ s[i2 + 1] \in {"+", "-"}
      expNeg == expSigned /\ s[i2 + 1] = "-"
      j1 == IF expSigned THEN i2 + 2 ELSE i2 + 1
      j2 == DigitsEnd(s, j1)
      expAbs == IF hasExp THEN DecimalValue(SubSeq(s, j1, j2 - 1)) ELSE 0
      expVal == IF expNeg THEN 0 - expAbs ELSE expAbs
      ok == /\ Len(intDigits) + Len(fracDigits) > 0
            /\ IF hasExp THEN j2 > j1 /\ j2 = n + 1 ELSE i2 = n + 1
  IN [ok |-> ok,
      value |-> IF ok
                THEN Normalize(neg, DecimalValue(intDigits \o fracDigits),
                               expVal - Len(fracDigits))
                ELSE Normalize(FALSE, 0, 0)]

(***************************************************************************)
(* JsonValue and ExpectedTokenError.                                       *)
(***************************************************************************)
NoNumber == Normalize(FALSE, 0, 0)

JsonValue(t, b, n, s, items) ==
  [t |-> t, b |-> b, n |-> n, s |-> s, items |-> items]

JsonNull == JsonValue("Null", FALSE, NoNumber, <<>>, <<>>)
JsonBoolean(b) == JsonValue("Boolean", b, NoNumber, <<>>, <<>>)
JsonNumber(n) == JsonValue("Number", FALSE, n, <<>>, <<>>)
JsonString(s) == JsonValue("String", FALSE, NoNumber, s, <<>>)
JsonObject(items) == JsonValue("Object", FALSE, NoNumber, <<>>, items)
JsonArray(items) == JsonValue("Array", FALSE, NoNumber, <<>>, items)
JsonProperty(key, value) == [key |-> key, value |-> value]

NoValue == JsonValue("None", FALSE, NoNumber, <<>>, <<>>)

ExpectedTokenError(expected, actual, reason, origin, row, column) ==
  [expected |-> expected, actual |-> actual, reason |-> reason,
   origin |-> origin, row |-> row, column |-> column]

NoError == ExpectedTokenError(<<>>, "None", NoReason, <<>>, 0, 0)

Running == [tag |-> "none", value |-> NoValue, error |-> NoError]
Ok(value) == [tag |-> "Ok", value |-> value, error |-> NoError]
Err(error) == [tag |-> "Err", value |-> NoValue, error |-> error]
Panic == [tag |-> "Panic", value |-> NoValue, error |-> NoError]

\* The byte length with_offset subtracts from the column.
offset_len(origin) == str_len(origin)

\* ExpectedTokenError::with_offset: `column - origin.len()` on usize.  When
\* the subtraction goes below zero a build with overflow checks aborts and a
\* build without them wraps; a wrapped column 2^64 - k is written -k.
with_offset(expected, actual, reason, origin, row, column) ==
  LET e == ExpectedTokenError(expected, actual, reason, origin, row,
                              column - offset_len(origin))
  IN IF column >= offset_len(origin) THEN {Err(e)} ELSE {Panic, Err(e)}

\* History entry: the token next_token returned from lexer state l0, and the
\* index of the character it starts at (one past the end for Eof).
Pulled(token, l0) ==
  [token |-> token,
   start |-> With(skip_whitespace(l0), LAMBDA l :
               IF l.ch = None THEN Len(input) + 1 ELSE l.chars)]

(***************************************************************************)
(* The parser.  p is the Parser's own state: its lexer, its two tokens and *)
(* the history of tokens pulled.                                           *)
(***************************************************************************)
Parser(l, current, peek, pulled) ==
  [lexer |-> l, current_token |-> current, peek_token |-> peek,
   tokens |-> pulled]

\* A next_token that reads the lookahead without keeping the old one.
parser_next_token_no_shift(p) ==
  With(next_token(p.lexer), LAMBDA r :
    Parser(r.lexer, p.current_token, r.token,
           Append(p.tokens, Pulled(r.token, p.lexer))))

\* Parser::next_token
parser_next_token(p) ==
  With(next_token(p.lexer), LAMBDA r :
    Parser(r.lexer, p.peek_token, r.token,
           Append(p.tokens, Pulled(r.token, p.lexer))))

\* Parser::new
ParserNew ==
  parser_next_token(Parser(LexerNew, TokenDefault, TokenDefault, <<>>))

\* expected_token_err!(token, self.lexer.row, self.lexer.column, kinds)
expected_token_err(p, actual_token, expected) ==
  with_offset(expected, actual_token.kind, actual_token.reason,
              actual_token.origin, p.lexer.row, p.lexer.column)

\* Parser::expect_peek: ok with the parser advanced, or the error outcomes.
expect_peek(p, expected) ==
  IF p.peek_token.kind # expected
  THEN [ok |-> FALSE, parser |-> p,
        err |-> expected_token_err(p, p.peek_token, <<expected>>)]
  ELSE [ok |-> TRUE, parser |-> parser_next_token(p), err |-> {}]

\* Parser::parse_number
parse_number(p, literal) ==
  With(parse_f64(literal), LAMBDA r :
    IF r.ok THEN [ok |-> TRUE, value |-> JsonNumber(r.value), err |-> {}]
    ELSE [ok |-> FALSE, value |-> NoValue,
          err |-> with_offset(<<"Number">>, "Illegal", NoReason, literal,
                              p.lexer.row, p.lexer.column)])

\* A root error that lists the kinds of a value instead of the root kinds.
RootKindsAnyValue ==
  <<"String", "Number", "True", "False", "Null", "LBrace", "LBracket">>

\* The kinds Parser::parse accepts as the root.
RootKinds == <<"LBrace", "LBracket">>

ValueKinds ==
  <<"String", "Number", "True", "False", "Null", "LBrace", "LBracket">>

Frame(fn, st, items, key) == [fn |-> fn, st |-> st, items |-> items, key |-> key]

Call(fn) == Frame(fn, "entry", <<>>, <<>>)

Top == stack[Len(stack)]
Pop == SubSeq(stack, 1, Len(stack) - 1)
SetTop(f) == [stack EXCEPT ![Len(stack)] = f]

Me == Parser(lexer, current_token, peek_token, tokens)

SetParser(p) ==
  /\ lexer' = p.lexer
  /\ current_token' = p.current_token
  /\ peek_token' = p.peek_token
  /\ tokens' = p.tokens

\* The call returns `value` to its caller.
Return(p0, value) ==
  \E p \in {p0} :
    /\ SetParser(p)
    /\ stack' = Pop
    /\ ret' = value
    /\ UNCHANGED <<input, result, pc>>

\* The call calls `fn`, its own frame left as `f`.
Invoke(p0, f, fn) ==
  \E p \in {p0} :
    /\ SetParser(p)
    /\ stack' = Append(SetTop(f), Call(fn))
    /\ ret' = NoValue
    /\ UNCHANGED <<input, result, pc>>

\* Parser::parse returns (or aborts) with one of `outcomes`.
Finish(p0, outcomes) ==
  \E p \in {p0} :
    /\ SetParser(p)
    /\ result' \in outcomes
    /\ pc' = "done"
    /\ stack' = <<>>
    /\ ret' = NoValue
    /\ UNCHANGED input

(***************************************************************************)
(* Actions.                                                                *)
(***************************************************************************)
EofPulled == Len(SelectSeq(tokens, LAMBDA t : t.token.kind = "Eof"))

\* A caller holding a Lexer calls next_token (the token.rs tests do).
LexNextToken ==
  /\ pc = "lex"
  /\ EofPulled <= ExtraPulls
  /\ \E r \in {next_token(lexer)} :
       /\ lexer' = r.lexer
       /\ tokens' = Append(tokens, Pulled(r.token, lexer))
  /\ UNCHANGED <<input, current_token, peek_token, stack, ret, result, pc>>

\* Parser::parse
Parse ==
  /\ pc = "parse"
  /\ IF peek_token.kind = "LBrace"
     THEN /\ stack' = <<Call("parse_root_object"), Call("parse_object")>>
          /\ pc' = "run"
          /\ UNCHANGED <<input, lexer, current_token, peek_token, ret, result,
                         tokens>>
     ELSE IF peek_token.kind = "LBracket"
     THEN /\ stack' = <<Call("parse_root_array"), Call("parse_array")>>
          /\ pc' = "run"
          /\ UNCHANGED <<input, lexer, current_token, peek_token, ret, result,
                         tokens>>
     ELSE Finish(Me, expected_token_err(Me, current_token, RootKinds))

\* Parser::parse_value up to its first call or return.
ParseValue ==
  /\ pc = "run" /\ Top.fn = "parse_value" /\ Top.st = "entry"
  /\ LET kind == peek_token.kind
         num == parse_number(Me, peek_token.origin)
     IN
     CASE kind = "String" ->
            Return(parser_next_token(Me), JsonString(peek_token.origin))
       [] kind = "Number" ->
            IF num.ok THEN Return(parser_next_token(Me), num.value)
            ELSE Finish(Me, num.err)
       [] kind = "True" -> Return(parser_next_token(Me), JsonBoolean(TRUE))
       [] kind = "False" -> Return(parser_next_token(Me), JsonBoolean(FALSE))
       [] kind = "Null" -> Return(parser_next_token(Me), JsonNull)
       [] kind = "LBrace" ->
            Invoke(Me, [Top EXCEPT !.st = "called"], "parse_object")
       [] kind = "LBracket" ->
            Invoke(Me, [Top EXCEPT !.st = "called"], "parse_array")
       [] OTHER -> Finish(Me, expected_token_err(Me, peek_token, ValueKinds))

\* Parser::parse_value after parse_object / parse_array returned.
ParseValueReturn ==
  /\ pc = "run" /\ Top.fn = "parse_value" /\ Top.st = "called"
  /\ Return(parser_next_token(Me), ret)

\* Parser::parse_property up to its call of parse_value.
ParseProperty ==
  /\ pc = "run" /\ Top.fn = "parse_property" /\ Top.st = "entry"
  /\ \E a \in {expect_peek(Me, "String")} :
       IF ~a.ok THEN Finish(Me, a.err)
       ELSE \E b \in {expect_peek(a.parser, "Colon")} :
              LET key == a.parser.current_token.origin IN
              IF ~b.ok THEN Finish(a.parser, b.err)
              ELSE Invoke(b.parser,
                          [Top EXCEPT !.st = "called", !.key = key],
                          "parse_value")

\* Parser::parse_property after parse_value returned.
ParsePropertyReturn ==
  /\ pc = "run" /\ Top.fn = "parse_property" /\ Top.st = "called"
  /\ Return(Me, JsonProperty(Top.key, ret))

\* Parser::parse_object up to its first call or return.
ParseObject ==
  /\ pc = "run" /\ Top.fn = "parse_object" /\ Top.st = "entry"
  /\ \E a \in {expect_peek(Me, "LBrace")} :
       IF ~a.ok THEN Finish(Me, a.err)
       ELSE IF a.parser.peek_token.kind = "RBrace"
       THEN Return(a.parser, JsonObject(<<>>))
       ELSE Invoke(a.parser, [Top EXCEPT !.st = "called"], "parse_property")

\* A property list that keeps one entry per key, the later value replacing
\* the earlier one.
PushUnique(items, item) ==
  IF \E i \in DOMAIN items : items[i].key = item.key
  THEN [i \in DOMAIN items |->
          IF items[i].key = item.key THEN item ELSE items[i]]
  ELSE Append(items, item)

\* A parse_object loop that stores its properties as a map would.
ParseObjectLoopUniqueKeys ==
  /\ pc = "run" /\ Top.fn = "parse_object" /\ Top.st = "called"
  /\ LET items == PushUnique(Top.items, ret) IN
     CASE peek_token.kind = "Comma" ->
            Invoke(parser_next_token(Me), [Top EXCEPT !.items = items],
                   "parse_property")
       [] peek_token.kind = "RBrace" -> Return(Me, JsonObject(items))
       [] OTHER -> Finish(Me, expected_token_err(Me, peek_token,
                                                 <<"Comma", "RBrace">>))

\* Parser::parse_object: one turn of its loop, after parse_property returned.
ParseObjectLoop ==
  /\ pc = "run" /\ Top.fn = "parse_object" /\ Top.st = "called"
  /\ LET items == Append(Top.items, ret) IN
     CASE peek_token.kind = "Comma" ->
            Invoke(parser_next_token(Me), [Top EXCEPT !.items = items],
                   "parse_property")
       [] peek_token.kind = "RBrace" -> Return(Me, JsonObject(items))
       [] OTHER -> Finish(Me, expected_token_err(Me, peek_token,
                                                 <<"Comma", "RBrace">>))

\* A parse_array without the early return for `[]`.
ParseArrayNoEmptyCase ==
  /\ pc = "run" /\ Top.fn = "parse_array" /\ Top.st = "entry"
  /\ \E a \in {expect_peek(Me, "LBracket")} :
       IF ~a.ok THEN Finish(Me, a.err)
       ELSE Invoke(a.parser, [Top EXCEPT !.st = "called"], "parse_value")

\* Parser::parse_array up to its first call or return.
ParseArray ==
  /\ pc = "run" /\ Top.fn = "parse_array" /\ Top.st = "entry"
  /\ \E a \in {expect_peek(Me, "LBracket")} :
       IF ~a.ok THEN Finish(Me, a.err)
       ELSE IF a.parser.peek_token.kind = "RBracket"
       THEN Return(a.parser, JsonArray(<<>>))
       ELSE Invoke(a.parser, [Top EXCEPT !.st = "called"], "parse_value")

\* Parser::parse_array: one turn of its loop, after parse_value returned.
ParseArrayLoop ==
  /\ pc = "run" /\ Top.fn = "parse_array" /\ Top.st = "called"
  /\ LET items == Append(Top.items, ret) IN
     CASE peek_token.kind = "Comma" ->
            Invoke(parser_next_token(Me), [Top EXCEPT !.items = items],
                   "parse_value")
       [] peek_token.kind = "RBracket" -> Return(Me, JsonArray(items))
       [] OTHER -> Finish(Me, expected_token_err(Me, peek_token,
                                                 <<"Comma", "RBracket">>))

\* The closing kind a root must end with.
root_closing(fn) == IF fn = "parse_root_object" THEN "RBrace" ELSE "RBracket"

\* Parser::parse_root_object / parse_root_array after the root was parsed.
ParseRoot ==
  /\ pc = "run" /\ Top.fn \in {"parse_root_object", "parse_root_array"}
  /\ \E p \in {parser_next_token(Me)} :
       IF p.current_token.kind = root_closing(Top.fn)
          /\ p.peek_token.kind = "Eof"
       THEN Finish(p, {Ok(ret)})
       ELSE Finish(p, expected_token_err(p, p.peek_token, <<"Eof">>))

Next ==
  \/ LexNextToken
  \/ Parse
  \/ ParseValue
  \/ ParseValueReturn
  \/ ParseProperty
  \/ ParsePropertyReturn
  \/ ParseObject
  \/ ParseObjectLoop
  \/ ParseArray
  \/ ParseArrayLoop
  \/ ParseRoot

(***************************************************************************)
(* Inputs.  A text is a concatenation of fragments.                        *)
(***************************************************************************)
RECURSIVE Concat(_)
Concat(ss) == IF ss = <<>> THEN <<>> ELSE Head(ss) \o Concat(Tail(ss))

Texts(frags, n) ==
  { Concat(f) : f \in UNION { [1..k -> frags] : k \in 0..n } }

StrA == <<"\"", "a", "\"">>
True == <<"t", "r", "u", "e">>
False == <<"f", "a", "l", "s", "e">>
Null == <<"n", "u", "l", "l">>

Frags ==
  { <<"[">>, <<"]">>, <<"{">>, <<"}">>, <<":">>, <<",">>, StrA, <<"1">>,
    <<"\n">>, <<"è">>, <<"\"">> }

\* Whole documents, well-formed and not, that exercise every parser path.
Documents ==
  { Concat(<<<<"{">>, StrA, <<":">>, <<"[">>, <<"1">>, <<",">>, True, <<"]">>,
             <<",">>, StrA, <<":">>, <<"{">>, <<"}">>, <<"}">>>>),
    Concat(<<<<"[">>, <<"{">>, StrA, <<":">>, Null, <<"}">>, <<",">>, False,
             <<"]">>>>),
    Concat(<<<<"{">>, StrA, <<":">>, StrA, <<"}">>, <<" ">>, <<"{">>, <<"}">>>>),
    <<"t", "r", "u">>, <<"0", "0">> }

\* Documents whose root is a bare keyword.
ScalarDocuments == { True, False, Null }

NumberFrags == { <<"0">>, <<"1">>, <<"-">>, <<".">>, <<"e">>, <<"+">> }

NumberTexts ==
  { <<"[">> \o r \o <<"]">> : r \in Texts(NumberFrags, MaxRun) }

\* The state after Lexer::new (pc "lex") or after Parser::new (pc "parse").
InitOver(texts) ==
  /\ input \in texts
  /\ pc \in {"lex", "parse"}
  /\ \E p \in {IF pc = "lex"
               THEN Parser(LexerNew, TokenDefault, TokenDefault, <<>>)
               ELSE ParserNew} :
       /\ lexer = p.lexer
       /\ current_token = p.current_token
       /\ peek_token = p.peek_token
       /\ tokens = p.tokens
  /\ stack = <<>>
  /\ ret = NoValue
  /\ result = Running

Init == InitOver(Texts(Frags, MaxFrags) \cup Documents \cup ScalarDocuments)

Spec == Init /\ [][Next]_vars

InitNumbers == InitOver(NumberTexts \cup Documents)

SpecNumbers == InitNumbers /\ [][Next]_vars

\* Container texts: an array of elements or an object of properties, the
\* elements empty containers, arrays of them, or scalars.
RECURSIVE Join(_)
Join(ss) ==
  IF ss = <<>> THEN <<>>
  ELSE IF Len(ss) = 1 THEN ss[1]
  ELSE ss[1] \o <<",">> \o Join(Tail(ss))

Members == { <<"[", "]">>, <<"{", "}">>, <<"[", "[", "]", "]">>, <<"1">>, StrA }

PropValues == { <<"1">>, <<"[", "]">>, <<"{", "}">> }

Props ==
  { <<"\"", k, "\"", ":">> \o m : k \in {"a", "b"}, m \in PropValues }

Lists(elems, n) == UNION { [1..k -> elems] : k \in 0..n }

MemberTexts ==
  { <<"[">> \o Join(ms) \o <<"]">> : ms \in Lists(Members, MaxMembers) }
    \cup { <<"{">> \o Join(ps) \o <<"}">> : ps \in Lists(Props, MaxMembers) }

InitMembers == InitOver(MemberTexts \cup Documents)

SpecMembers == InitMembers /\ [][Next]_vars

\* String texts: an opening double-quote and what may follow it.
StringFrags ==
  { <<"\"">>, <<"\\", "u">>, <<"\\", "n">>, <<"\\", "x">>, <<"0", "0">>,
    <<"d", "8">>, <<"\n">>, <<"\t">>, <<"è">>, <<"a">> }

StringTexts == { <<"\"">> \o r : r \in Texts(StringFrags, MaxStr) }

InitStrings == InitOver(StringTexts \cup Documents)

SpecStrings == InitStrings /\ [][Next]_vars

(***************************************************************************)
(* A reference reading of JSON (RFC 8259) over the same texts, written     *)
(* from the grammar and not from the lexer.  A string's value is its       *)
(* source text between the quotes, as JsonValue::String holds it.          *)
(***************************************************************************)
JsonWs == {" ", "\t", "\n", "\r"}

RECURSIVE RefSkipWs(_, _)
RefSkipWs(s, i) ==
  IF i <= Len(s) /\ s[i] \in JsonWs THEN RefSkipWs(s, i + 1) ELSE i

RefFail == [ok |-> FALSE, value |-> NoValue, next |-> 0]
RefOk(value, next) == [ok |-> TRUE, value |-> value, next |-> next]

\* number = [ "-" ] ( "0" / digit1-9 *digit ) [ "." 1*digit ] [ e [sign] 1*digit ]
RefNumber(s, i) ==
  LET n == Len(s)
      neg == s[i] = "-"
      i0 == IF neg THEN i + 1 ELSE i
      i1 == DigitsEnd(s, i0)
      intOk == i1 > i0 /\ (s[i0] = "0" => i1 = i0 + 1)
      hasDot == i1 <= n /\ s[i1] = "."
      i2 == IF hasDot THEN DigitsEnd(s, i1 + 1) ELSE i1
      fracOk == hasDot => i2 > i1 + 1
      hasExp == i2 <= n /\ s[i2] \in {"e", "E"}
      expSigned == hasExp /\ i2 + 1 <= n /\ s[i2 + 1] \in {"+", "-"}
      j1 == IF expSigned THEN i2 + 2 ELSE i2 + 1
      j2 == IF hasExp THEN DigitsEnd(s, j1) ELSE i2
      expOk == hasExp => j2 > j1
      digits == SubSeq(s, i0, i1 - 1)
                  \o (IF hasDot THEN SubSeq(s, i1 + 1, i2 - 1) ELSE <<>>)
      expAbs == IF hasExp THEN DecimalValue(SubSeq(s, j1, j2 - 1)) ELSE 0
      exp == (IF expSigned /\ s[i2 + 1] = "-" THEN 0 - expAbs ELSE expAbs)
               - (IF hasDot THEN i2 - i1 - 1 ELSE 0)
  IN IF intOk /\ fracOk /\ expOk
     THEN RefOk(JsonNumber(Normalize(neg, DecimalValue(digits), exp)), j2)
     ELSE RefFail

RECURSIVE RefStringEnd(_, _)
\* The index of the closing quote of the string whose body starts at i, or 0.
RefStringEnd(s, i) ==
  IF i > Len(s) THEN 0
  ELSE IF s[i] = "\"" THEN i
  ELSE IF s[i] \in {"\t", "\n", "\r"} THEN 0
  ELSE IF s[i] # "\\" THEN RefStringEnd(s, i + 1)
  ELSE IF i + 1 <= Len(s) /\ s[i + 1] \in EscapeChar
  THEN RefStringEnd(s, i + 2)
  ELSE IF /\ i + 5 <= Len(s)
          /\ s[i + 1] = "u"
          /\ \A k \in 2..5 : s[i + k] \in AsciiHexDigit
  THEN RefStringEnd(s, i + 6)
  ELSE 0

RefString(s, i) ==
  With(RefStringEnd(s, i + 1), LAMBDA e :
    IF e = 0 THEN RefFail ELSE RefOk(JsonString(SubSeq(s, i + 1, e - 1)), e + 1))

StartsWith(s, i, word) ==
  i + Len(word) - 1 <= Len(s) /\ SubSeq(s, i, i + Len(word) - 1) = word

RECURSIVE RefValue(_, _), RefElements(_, _, _), RefMembers(_, _, _)
RefValue(s, i0) ==
  With(RefSkipWs(s, i0), LAMBDA i :
    IF i > Len(s) THEN RefFail
    ELSE IF s[i] = "[" THEN
      With(RefSkipWs(s, i + 1), LAMBDA j :
        IF j <= Len(s) /\ s[j] = "]" THEN RefOk(JsonArray(<<>>), j + 1)
        ELSE RefElements(s, j, <<>>))
    ELSE IF s[i] = "{" THEN
      With(RefSkipWs(s, i + 1), LAMBDA j :
        IF j <= Len(s) /\ s[j] = "}" THEN RefOk(JsonObject(<<>>), j + 1)
        ELSE RefMembers(s, j, <<>>))
    ELSE IF s[i] = "\"" THEN RefString(s, i)
    ELSE IF s[i] \in AsciiDigit \cup {"-"} THEN RefNumber(s, i)
    ELSE IF StartsWith(s, i, <<"t", "r", "u", "e">>)
    THEN RefOk(JsonBoolean(TRUE), i + 4)
    ELSE IF StartsWith(s, i, <<"f", "a", "l", "s", "e">>)
    THEN RefOk(JsonBoolean(FALSE), i + 5)
    ELSE IF StartsWith(s, i, <<"n", "u", "l", "l">>)
    THEN RefOk(JsonNull, i + 4)
    ELSE RefFail)

RefElements(s, i, items) ==
  With(RefValue(s, i), LAMBDA v :
    IF ~v.ok THEN RefFail
    ELSE With(RefSkipWs(s, v.next), LAMBDA k :
      IF k > Len(s) THEN RefFail
      ELSE IF s[k] = "," THEN RefElements(s, k + 1, Append(items, v.value))
      ELSE IF s[k] = "]" THEN RefOk(JsonArray(Append(items, v.value)), k + 1)
      ELSE RefFail))

RefMembers(s, i0, items) ==
  With(RefSkipWs(s, i0), LAMBDA i :
    IF i > Len(s) \/ s[i] # "\"" THEN RefFail
    ELSE With(RefString(s, i), LAMBDA key :
      IF ~key.ok THEN RefFail
      ELSE With(RefSkipWs(s, key.next), LAMBDA c :
        IF c > Len(s) \/ s[c] # ":" THEN RefFail
        ELSE With(RefValue(s, c + 1), LAMBDA v :
          IF ~v.ok THEN RefFail
          ELSE With(RefSkipWs(s, v.next), LAMBDA k :
            LET all == Append(items, JsonProperty(key.value.s, v.value)) IN
            IF k > Len(s) THEN RefFail
            ELSE IF s[k] = "," THEN RefMembers(s, k + 1, all)
            ELSE IF s[k] = "}" THEN RefOk(JsonObject(all), k + 1)
            ELSE RefFail)))))

\* The whole text is one JSON value between optional whitespace.
RefDecode(s) ==
  With(RefValue(s, 1), LAMBDA r :
    IF r.ok /\ RefSkipWs(s, r.next) = Len(s) + 1 THEN r ELSE RefFail)

(***************************************************************************)
(* Positions in the text, and the token an error is about.                 *)
(***************************************************************************)
\* 1 + the number of newlines before the character at index i.
RowOf(i) == 1 + Cardinality({ k \in 1..(i - 1) : input[k] = "\n" })

\* The 1-based character column of index i on its line.
ColumnOf(i) ==
  LET before == { k \in 1..(i - 1) : input[k] = "\n" }
  IN IF before = {} THEN i
     ELSE i - (CHOOSE k \in before : \A j \in before : j <= k)

\* When parse has stopped with an error: the last token pulled, which is the
\* one that did not fit (every earlier token was examined and accepted).
Offending == tokens[Len(tokens)]

Done == pc = "done"
Failed == pc = "done" /\ result.tag = "Err"

ScalarKinds == {"String", "Number", "True", "False", "Null"}

\* The text is one scalar token followed by end of input.
ScalarDocument ==
  /\ Len(tokens) = 1
  /\ tokens[1].token.kind \in ScalarKinds
  /\ next_token(lexer).token.kind = "Eof"

\* parse_root_object / parse_root_array is about to look past the root's end.
AtRootEnd == pc = "run" /\ Top.fn \in {"parse_root_object", "parse_root_array"}

(***************************************************************************)
(* Claims.                                                                 *)
(***************************************************************************)
\* C1: for every text that is valid JSON, parse returns Ok with the value a
\* reference JSON decoder gives for that text.
C1_RoundTrip ==
  (Done /\ RefDecode(input).ok) => result = Ok(RefDecode(input).value)

\* C2: every text that is not valid JSON is rejected: parse returns Err for
\* it, the number rules of JSON included.
C2_StrictReject ==
  (Done /\ ~RefDecode(input).ok) => result.tag = "Err"

\* C3: the column of a returned error is the 1-based character column at
\* which the offending token starts on its line.
C3_ErrorColumn ==
  Failed => result.error.column = ColumnOf(Offending.start)

\* C4: the row of a returned error is 1 plus the number of newline characters
\* that precede the offending token in the text.
C4_ErrorRow ==
  Failed => result.error.row = RowOf(Offending.start)

\* C4 witness: an error about a token found on a later line than the first.
C4_ErrorRowWitness ==
  /\ Failed
  /\ Offending.start <= Len(input)
  /\ RowOf(Offending.start) > 1

\* C5: for any text, well formed or not, every call of Lexer::next_token
\* returns a token of one of the kinds and none panics: no slice is out of
\* range and no unsigned subtraction goes below zero.
C5_LexerTotal ==
  /\ ~lexer.fault
  /\ \A i \in DOMAIN tokens : tokens[i].token.kind \in TokenKinds

\* C5 witness: the lexer, pulled directly, has returned an Illegal token for
\* a string that is never closed, with the column subtraction landing on 0.
C5_LexerTotalWitness ==
  /\ pc = "lex"
  /\ tokens # <<>>
  /\ Offending.token.kind = "Illegal"
  /\ Offending.token.reason = illegal_string("MissingClosingQuote", 0)

\* C6: once the root object or array is closed, parse returns Ok if the next
\* token is Eof and otherwise returns an error whose expected list is
\* exactly <<Eof>>.
C6_TrailingContent ==
  [][AtRootEnd =>
       IF next_token(lexer).token.kind = "Eof"
       THEN result'.tag = "Ok"
       ELSE result'.tag = "Err" /\ result'.error.expected = <<"Eof">>]_vars

\* C7 as stated: a text that is one scalar (string, number, true, false or
\* null) followed by end of input parses to Ok with that scalar.
C7_ScalarRootAccepted ==
  (Done /\ ScalarDocument) =>
    result.tag = "Ok" /\ result.value = RefDecode(input).value

\* C7 amended: a text that is one scalar followed by end of input is
\* rejected: parse returns an error whose expected list is LBrace, LBracket.
C7_ScalarRootRejected ==
  (Done /\ ScalarDocument) =>
    result.tag = "Err" /\ result.error.expected = <<"LBrace", "LBracket">>

\* C7 witness: parse has returned for a text that is the bare keyword true.
C7_ScalarRootWitness ==
  Done /\ ScalarDocument /\ tokens[1].token.kind = "True"

\* C8: parse fails fast: when it does not return Ok it returns one error
\* that describes the first token that does not fit, which is the last token
\* it pulled.
C8_FailFast ==
  (Done /\ result.tag # "Ok") =>
    /\ result.tag = "Err"
    /\ result.error.origin = Offending.token.origin

\* C9: on every error path the actual kind and the text of the error are
\* those of the lookahead token that did not fit.
C9_ActualIsLookahead ==
  Failed =>
    /\ result.error.actual = peek_token.kind
    /\ result.error.reason = peek_token.reason
    /\ result.error.origin = peek_token.origin

\* C10: if any token pulled is Illegal, parse returns no Ok but an error
\* that reports that token.
C10_IllegalReported ==
  Done =>
    \A i \in DOMAIN tokens :
      tokens[i].token.kind = "Illegal" =>
        /\ result.tag = "Err"
        /\ result.error.actual = "Illegal"
        /\ result.error.reason = tokens[i].token.reason
        /\ result.error.origin = tokens[i].token.origin

(***************************************************************************)
(* The number rules as the specification lists them, over a run.           *)
(***************************************************************************)
RECURSIVE RunEnd(_, _)
\* The first index at or after i that holds no character of a number run.
RunEnd(s, i) ==
  IF i <= Len(s) /\ s[i] \in {"0", "1", "2", "3", "4", "5", "6", "7", "8", "9",
                              ".", "-", "+", "e", "E"}
  THEN RunEnd(s, i + 1) ELSE i

MaximalRun(i) == SubSeq(input, i, RunEnd(input, i) - 1)

StartsWithPair(run, first, seconds) ==
  Len(run) >= 2 /\ run[1] = first /\ run[2] \in seconds

EndsWith(run, c) == Len(run) >= 1 /\ run[Len(run)] = c

Contains(run, pair) ==
  \E i \in 1..(Len(run) - 1) : SubSeq(run, i, i + 1) = pair

\* Rules 1 to 7, in their order: whether each applies to the run, and its reason.
NumberRules(run) ==
  << [hit |-> StartsWithPair(run, "0", AsciiDigit), reason |-> "LeadingZero"],
     [hit |-> StartsWithPair(run, "0", {"e", "E"}), reason |-> "MissingExponent"],
     [hit |-> StartsWithPair(run, "-", {"."}), reason |-> "InvalidFractionPart"],
     [hit |-> EndsWith(run, "."), reason |-> "MissingFraction"],
     [hit |-> EndsWith(run, "-"), reason |-> "MinusMissingDigit"],
     [hit |-> EndsWith(run, "+"), reason |-> "MissingExponent"],
     [hit |-> Contains(run, <<".", "e">>) \/ Contains(run, <<".", "E">>),
      reason |-> "MissingFraction"] >>

\* The reason of the first rule that applies, or none (rule 8).
FirstRule(run) ==
  LET rules == NumberRules(run)
      hits == { i \in DOMAIN rules : rules[i].hit }
  IN IF hits = {} THEN NoReason
     ELSE illegal_number(rules[CHOOSE i \in hits : \A j \in hits : i <= j].reason)

\* The token starts a number run: its first character is '-' or a digit.
IsNumberRun(t) ==
  t.start <= Len(input) /\ input[t.start] \in AsciiDigit \cup {"-"}

C12_BareExponent ==
  \A k \in DOMAIN tokens :
    (IsNumberRun(tokens[k])
       /\ (EndsWith(MaximalRun(tokens[k].start), "e")
             \/ EndsWith(MaximalRun(tokens[k].start), "E"))) =>
      /\ tokens[k].token.kind = "Illegal"
      /\ tokens[k].token.reason = illegal_number("MissingExponent")

\* C13: when the lookahead token has kind Number and its text is no 64-bit
\* float, parse returns an error whose expected list is exactly <<Number>>,
\* whose actual kind is Illegal(Number(ParseError)) and whose text is the run.
C13_ParseErrorReason ==
  (Done /\ peek_token.kind = "Number" /\ ~parse_f64(peek_token.origin).ok) =>
    /\ result.tag = "Err"
    /\ result.error.expected = <<"Number">>
    /\ result.error.actual = "Illegal"
    /\ result.error.reason = illegal_number("ParseError")
    /\ result.error.origin = peek_token.origin

(***************************************************************************)
(* Where the parser stands.                                                *)
(***************************************************************************)
\* parse_value is entered and has not yet looked at the lookahead token.
AtValue == pc = "run" /\ Top.fn = "parse_value" /\ Top.st = "entry"

\* parse_object / parse_array is at the top of its comma loop: a property /
\* an element was just parsed.
AtLoop(fn) == pc = "run" /\ Top.fn = fn /\ Top.st = "called"

\* The step returns from parse with the error `expected`, actual the lookahead.
FailsExpecting(expected) ==
  /\ pc' = "done"
  /\ result'.tag = "Err"
  /\ result'.error.expected = expected
  /\ result'.error.actual = peek_token.kind
  /\ result'.error.reason = peek_token.reason
  /\ result'.error.origin = peek_token.origin

\* The step calls `fn` from the current call.
Calls(fn) ==
  /\ pc' = "run"
  /\ Len(stack') = Len(stack) + 1
  /\ stack'[Len(stack')].fn = fn
  /\ stack'[Len(stack')].st = "entry"

\* The step returns from the current call to its caller.
Returns == pc' = "run" /\ Len(stack') = Len(stack) - 1

\* C14: when parse_value is entered with a lookahead token that is none of
\* String, Number, True, False, Null, LBrace, LBracket, it returns an error
\* whose expected list is these seven kinds in this order and whose actual
\* is the lookahead token.
C14_ValueKindsError ==
  [][(AtValue /\ peek_token.kind \notin ScalarKinds \cup {"LBrace", "LBracket"})
       => FailsExpecting(<<"String", "Number", "True", "False", "Null",
                           "LBrace", "LBracket">>)]_vars

\* C15: after each property (element) the lookahead is Comma, and another
\* property (element) is parsed, or the closing brace (bracket), and the
\* container returns; any other token gives an error expecting exactly
\* Comma, RBrace (Comma, RBracket).  A comma followed by the closer is
\* therefore never accepted.
C15_CommaOrClose ==
  /\ [][AtLoop("parse_object") =>
          CASE peek_token.kind = "Comma" -> Calls("parse_property")
            [] peek_token.kind = "RBrace" -> Returns
            [] OTHER -> FailsExpecting(<<"Comma", "RBrace">>)]_vars
  /\ [][AtLoop("parse_array") =>
          CASE peek_token.kind = "Comma" -> Calls("parse_value")
            [] peek_token.kind = "RBracket" -> Returns
            [] OTHER -> FailsExpecting(<<"Comma", "RBracket">>)]_vars
  /\ [](Done /\ (\E k \in 1..(Len(tokens) - 1) :
                   /\ tokens[k].token.kind = "Comma"
                   /\ tokens[k + 1].token.kind \in {"RBrace", "RBracket"})
          => result.tag # "Ok")

\* parse_array / parse_object is entered on a container that closes at once.
AtEmpty(fn, open, close) ==
  /\ pc = "run" /\ Top.fn = fn /\ Top.st = "entry"
  /\ peek_token.kind = open
  /\ next_token(lexer).token.kind = close

\* The text `[[[]],{}]` and its value.
NestedEmpties ==
  <<"[", "[", "[", "]", "]", ",", "{", "}", "]">>

NestedEmptiesValue ==
  JsonArray(<<JsonArray(<<JsonArray(<<>>)>>), JsonObject(<<>>)>>)

\* C16: empty containers are legal at every depth: `{}` parses to an Object
\* without properties, `[]` to an Array without elements, `[[[]],{}]` to the
\* two-element array of a one-element array holding an empty array and of an
\* empty object; and a container that closes at once returns its empty
\* value without entering the comma loop.
C16_EmptyContainers ==
  /\ []((Done /\ input = <<"{", "}">>) => result = Ok(JsonObject(<<>>)))
  /\ []((Done /\ input = <<"[", "]">>) => result = Ok(JsonArray(<<>>)))
  /\ []((Done /\ input = NestedEmpties) => result = Ok(NestedEmptiesValue))
  /\ [][AtEmpty("parse_array", "LBracket", "RBracket")
          => (Returns /\ ret' = JsonArray(<<>>))]_vars
  /\ [][AtEmpty("parse_object", "LBrace", "RBrace")
          => (Returns /\ ret' = JsonObject(<<>>))]_vars

\* C16 witness: parse has returned Ok for `[[[]],{}]`.
C16_EmptyContainersWitness ==
  Done /\ input = NestedEmpties /\ result.tag = "Ok"

\* C17: key uniqueness is not checked: an accepted object holds one Property
\* per property of the source, in source order, duplicates kept, and an
\* accepted array holds every element in source order; the value is the one
\* a reference reading that keeps every member gives.
C17_DuplicatesKept ==
  (Done /\ result.tag = "Ok") =>
    /\ RefDecode(input).ok
    /\ result.value = RefDecode(input).value

\* C17 witness: parse has returned an Object whose first two properties have
\* the same key and different values.
C17_DuplicatesKeptWitness ==
  /\ Done /\ result.tag = "Ok" /\ result.value.t = "Object"
  /\ Len(result.value.items) = 3
  /\ result.value.items[1].key = result.value.items[2].key
  /\ result.value.items[1].value # result.value.items[2].value

(***************************************************************************)
(* The defects of a string as the specification lists them, over the text. *)
(***************************************************************************)
RECURSIVE FirstDefect(_, _)
\* The first defect met when the body of a string is read from index i on,
\* or "None" when the closing quote comes first.
FirstDefect(s, i) ==
  IF i > Len(s) THEN "MissingClosingQuote"
  ELSE IF s[i] = "\"" THEN "None"
  ELSE IF s[i] = "\t" THEN "UnescapedTab"
  ELSE IF s[i] = "\n" THEN "UnescapedNewLine"
  ELSE IF s[i] # "\\" THEN FirstDefect(s, i + 1)
  ELSE IF i + 1 <= Len(s) /\ s[i + 1] \in {"\"", "\\", "/", "b", "f", "n", "r", "t"}
  THEN FirstDefect(s, i + 2)
  ELSE IF i + 1 <= Len(s) /\ s[i + 1] = "u"
  THEN IF i + 5 <= Len(s) /\ \A k \in 2..5 : s[i + k] \in AsciiHexDigit
       THEN FirstDefect(s, i + 6)
       ELSE "InvalidUnicode"
  ELSE "InvalidEscape"

\* The token starts a string: its first character is a double-quote.
IsStringRun(t) == t.start <= Len(input) /\ input[t.start] = "\""

\* C18: the reason a string token carries is that of the defect that comes
\* first in its text (none when the string is well formed); a later defect,
\* a missing closing quote included, never replaces it.
C18_FirstDefectWins ==
  \A k \in DOMAIN tokens :
    IsStringRun(tokens[k]) =>
      tokens[k].token.reason.v = FirstDefect(input, tokens[k].start + 1)

RECURSIVE FirstDefectIndex(_, _)
\* Where FirstDefect finds its defect: the index of the raw tab or newline,
\* of the character after the backslash of a bad escape (the `u` of a bad
\* unicode escape), or one past the end for a missing closing quote; 0 when
\* there is none.
FirstDefectIndex(s, i) ==
  IF i > Len(s) THEN i
  ELSE IF s[i] = "\"" THEN 0
  ELSE IF s[i] \in {"\t", "\n"} THEN i
  ELSE IF s[i] # "\\" THEN FirstDefectIndex(s, i + 1)
  ELSE IF i + 1 <= Len(s) /\ s[i + 1] \in {"\"", "\\", "/", "b", "f", "n", "r", "t"}
  THEN FirstDefectIndex(s, i + 2)
  ELSE IF /\ i + 5 <= Len(s)
          /\ s[i + 1] = "u"
          /\ \A k \in 2..5 : s[i + k] \in AsciiHexDigit
  THEN FirstDefectIndex(s, i + 6)
  ELSE i + 1

RECURSIVE Unclosed(_, _)
\* The string body read from index i on meets the end of the text before a
\* closing quote (an escaped quote closes nothing).
Unclosed(s, i) ==
  IF i > Len(s) THEN TRUE
  ELSE IF s[i] = "\"" THEN FALSE
  ELSE IF s[i] = "\\" /\ i + 1 <= Len(s) /\ s[i + 1] \in {"\"", "\\"}
  THEN Unclosed(s, i + 2)
  ELSE Unclosed(s, i + 1)

\* C19: a string whose first defect is a backslash and `u` not followed by
\* four hexadecimal digits is lexed as Illegal with reason
\* String(InvalidUnicode(c)), c the 1-based column of the `u`.
C19_UnicodeColumn ==
  \A k \in DOMAIN tokens :
    (IsStringRun(tokens[k])
       /\ FirstDefect(input, tokens[k].start + 1) = "InvalidUnicode") =>
      /\ tokens[k].token.kind = "Illegal"
      /\ tokens[k].token.reason =
           illegal_string("InvalidUnicode",
                          ColumnOf(FirstDefectIndex(input, tokens[k].start + 1)))

\* C20: a string that meets the end of the text before a closing quote is
\* lexed as Illegal with reason String(MissingClosingQuote(c)), c the
\* 1-based column of the opening quote, also when the opening quote is the
\* last character of the text.
C20_ClosingQuoteColumn ==
  \A k \in DOMAIN tokens :
    (IsStringRun(tokens[k]) /\ Unclosed(input, tokens[k].start + 1)) =>
      /\ tokens[k].token.kind = "Illegal"
      /\ tokens[k].token.reason =
           illegal_string("MissingClosingQuote", ColumnOf(tokens[k].start))

(***************************************************************************)
(* Escapes.  Texts made of an opening quote and then quotes, backslashes   *)
(* and letters, so that every run of backslashes meets a quote.            *)
(***************************************************************************)
MaxEsc == 5

EscapeFrags == { <<"\"">>, <<"\\">>, <<"n">>, <<"a">> }

EscapeTexts == { <<"\"">> \o r : r \in Texts(EscapeFrags, MaxEsc) }

InitEscapes == InitOver(EscapeTexts \cup Documents)

SpecEscapes == InitEscapes /\ [][Next]_vars

RECURSIVE ClosingQuote(_, _)
\* The index of the quote that closes the string body read from index i on,
\* 0 when there is none: a backslash takes the character after it with it.
ClosingQuote(s, i) ==
  IF i > Len(s) THEN 0
  ELSE IF s[i] = "\"" THEN i
  ELSE IF s[i] = "\\" THEN ClosingQuote(s, i + 2)
  ELSE ClosingQuote(s, i + 1)

\* C21: in a string with no defect, a backslash and the legal escape
\* character after it are consumed together, so an escaped quote does not
\* close the string and a quote after an escaped backslash does; the String
\* token's origin is the raw text strictly between the quotes, escapes
\* undecoded, and the next token starts after the closing quote.
C21_EscapesConsumed ==
  \A k \in 1..Len(tokens) :
    (IsStringRun(tokens[k]) /\ FirstDefect(input, tokens[k].start + 1) = "None")
      => \E close \in {ClosingQuote(input, tokens[k].start + 1)} :
           /\ close > tokens[k].start
           /\ tokens[k].token.kind = "String"
           /\ tokens[k].token.origin =
                SubSeq(input, tokens[k].start + 1, close - 1)
           /\ k < Len(tokens) => tokens[k + 1].start > close

\* An escaped backslash and an escaped quote, kept raw, and then the closing
\* quote.
C21_EscapesConsumedWitness ==
  \E k \in 1..Len(tokens) :
    /\ tokens[k].token.kind = "String"
    /\ tokens[k].token.origin = <<"\\", "\\", "\\", "\"">>

(***************************************************************************)
(* Unicode escapes.  Texts of an opening quote, a backslash and `u`, a run  *)
(* of hexadecimal digits and an ending.                                    *)
(***************************************************************************)
MaxHex == 5

HexFrags == { <<"d">>, <<"8">>, <<"0">>, <<"F">> }

UnicodeEndings ==
  { <<>>, <<"\"">>, <<"x", "\"">>, <<"\\", "u", "d", "F", "0", "0", "\"">> }

UnicodeTexts ==
  { <<"\"">> \o <<"\\", "u">> \o h \o post :
      h \in Texts(HexFrags, MaxHex), post \in UnicodeEndings }

InitUnicode == InitOver(UnicodeTexts \cup Documents)

SpecUnicode == InitUnicode /\ [][Next]_vars

\* The text has a backslash and `u` between indices i and j.
HasUnicodeEscape(s, i, j) ==
  \E n \in i..(j - 1) : s[n] = "\\" /\ s[n + 1] = "u"

\* C22: a string in which every backslash and `u` is followed by four
\* hexadecimal digits, whatever code point they spell (the surrogates
\* D800..DFFF included), and that has no other defect, is lexed as a String
\* token whose origin is the text between the quotes; hexadecimal digits
\* after the fourth are content of the string.
C22_UnicodeFourHex ==
  \A k \in 1..Len(tokens) :
    \E close \in {IF IsStringRun(tokens[k])
                  THEN ClosingQuote(input, tokens[k].start + 1) ELSE 0} :
      (/\ close > 0
       /\ HasUnicodeEscape(input, tokens[k].start + 1, close)
       /\ FirstDefect(input, tokens[k].start + 1) = "None")
        => /\ tokens[k].token.kind = "String"
           /\ tokens[k].token.reason = NoReason
           /\ tokens[k].token.origin =
                SubSeq(input, tokens[k].start + 1, close - 1)

\* The surrogate D800 and a fifth hexadecimal digit in a String token.
C22_UnicodeFourHexWitness ==
  \E k \in 1..Len(tokens) :
    /\ tokens[k].token.kind = "String"
    /\ tokens[k].token.origin = <<"\\", "u", "d", "8", "0", "0", "0">>

(***************************************************************************)
(* Keywords.  Texts of letters, keywords and what ends a run of letters.   *)
(***************************************************************************)
MaxWords == 3

KeywordFrags ==
  { True, False, Null, <<"t">>, <<"e">>, <<"n">>, <<"f">>, <<"x">>, <<"E">>,
    <<"1">>, <<" ">>, <<",">> }

KeywordTexts == Texts(KeywordFrags, MaxWords)

InitKeywords == InitOver(KeywordTexts \cup Documents)

SpecKeywords == InitKeywords /\ [][Next]_vars

RECURSIVE LettersEnd(_, _)
\* The first index at or after i that holds no lowercase ASCII letter.
LettersEnd(s, i) ==
  IF /\ i <= Len(s)
     /\ s[i] \in {"a", "b", "c", "d", "e", "f", "g", "h", "i", "j", "k", "l",
                  "m", "n", "o", "p", "q", "r", "s", "t", "u", "v", "w", "x",
                  "y", "z"}
  THEN LettersEnd(s, i + 1) ELSE i

\* C23: a token that starts at `t`, `f` or `n` has the maximal run of
\* lowercase ASCII letters from there as its origin; its kind is True, False
\* or Null when the run is exactly `true`, `false` or `null`, and otherwise
\* Illegal with no reason; the next token starts after the run.
C23_KeywordRun ==
  \A k \in 1..Len(tokens) :
    (tokens[k].start <= Len(input) /\ input[tokens[k].start] \in {"t", "f", "n"})
      => \E run \in {SubSeq(input, tokens[k].start,
                            LettersEnd(input, tokens[k].start) - 1)} :
           /\ tokens[k].token.origin = run
           /\ tokens[k].token.reason = NoReason
           /\ tokens[k].token.kind =
                (CASE run = <<"t", "r", "u", "e">> -> "True"
                   [] run = <<"f", "a", "l", "s", "e">> -> "False"
                   [] run = <<"n", "u", "l", "l">> -> "Null"
                   [] OTHER -> "Illegal")
           /\ k < Len(tokens)
                => tokens[k + 1].start >= tokens[k].start + Len(run)

\* A keyword with one letter too many is one Illegal token.
C23_KeywordRunWitness ==
  \E k \in 1..Len(tokens) :
    /\ tokens[k].token.kind = "Illegal"
    /\ tokens[k].token.origin = <<"t", "r", "u", "e", "e">>

\* C24: once next_token has returned Eof, every later call returns an equal
\* Eof token (same kind, empty origin, same start_column) and leaves the
\* lexer's row and column as they were.
C24_EofAbsorbing ==
  [][(/\ tokens # <<>>
      /\ Offending.token.kind = "Eof"
      /\ tokens' # tokens)
       => /\ Len(tokens') = Len(tokens) + 1
          /\ tokens'[Len(tokens')].token = Offending.token
          /\ tokens'[Len(tokens')].token.kind = "Eof"
          /\ tokens'[Len(tokens')].token.origin = <<>>
          /\ lexer'.row = lexer.row
          /\ lexer'.column = lexer.column]_vars

\* next_token has been called twice after it first returned Eof, on a text
\* that is not empty.
C24_EofAbsorbingWitness ==
  /\ pc = "lex"
  /\ input # <<>>
  /\ EofPulled = ExtraPulls + 1

\* The program runs on: a call in progress takes its next step.
SpecFair == Spec /\ WF_vars(Next)

\* A call of next_token that returned a token other than Eof.
PullsToken ==
  /\ tokens' # tokens
  /\ tokens'[Len(tokens')].token.kind # "Eof"

\* A turn of the comma loop of parse_object or parse_array that goes round.
LoopTurn ==
  \/ AtLoop("parse_object") /\ Calls("parse_property")
  \/ AtLoop("parse_array") /\ Calls("parse_value")

\* C25: every call of next_token that returns a token other than Eof moves
\* the lexer's position forward, every turn of an object or array loop
\* consumes at least one token, the tokens pulled are at most one more than
\* the characters of the input, and Parser::parse returns Ok or Err.
C25_Terminates ==
  /\ [][PullsToken => lexer'.position > lexer.position]_vars
  /\ [][LoopTurn => Len(tokens') > Len(tokens)]_vars
  /\ [](pc # "lex" => Len(tokens) <= Len(input) + 1)
  /\ (pc = "parse") ~> (Done /\ result.tag \in {"Ok", "Err"})

(***************************************************************************)
(* Flattening (src/lexer/src/ast.rs).  A value of that crate holds a usize *)
(* in Number and a list of JsonItem in Object.  Here `ret` holds the root   *)
(* given to to_flattened and `result` what the call ends with.             *)
(***************************************************************************)
FlatValue(t, b, n, s, items) ==
  [t |-> t, b |-> b, n |-> n, s |-> s, items |-> items]

FlatNull == FlatValue("Null", FALSE, 0, <<>>, <<>>)
FlatBoolean(b) == FlatValue("Boolean", b, 0, <<>>, <<>>)
FlatNumber(n) == FlatValue("Number", FALSE, n, <<>>, <<>>)
FlatString(s) == FlatValue("String", FALSE, 0, s, <<>>)
FlatObject(items) == FlatValue("Object", FALSE, 0, <<>>, items)
FlatArray(items) == FlatValue("Array", FALSE, 0, <<>>, items)
JsonItem(key, value) == [key |-> key, value |-> value]

\* Option<String>
NoPrefix == [some |-> FALSE, v |-> <<>>]
Some(v) == [some |-> TRUE, v |-> v]

DecimalDigits == <<"0", "1", "2", "3", "4", "5", "6", "7", "8", "9">>

RECURSIVE usize_to_string(_)
\* usize::to_string
usize_to_string(n) ==
  IF n < 10 THEN <<DecimalDigits[n + 1]>>
  ELSE usize_to_string(n \div 10) \o <<DecimalDigits[(n % 10) + 1]>>

\* format!("{:02}", index), a narrower padding.
format_02(index) ==
  LET s == usize_to_string(index)
  IN IF Len(s) >= 2 THEN s ELSE [i \in 1..(2 - Len(s)) |-> "0"] \o s

\* format!("{:03}", index)
format_03(index) ==
  LET s == usize_to_string(index)
  IN IF Len(s) >= 3 THEN s ELSE [i \in 1..(3 - Len(s)) |-> "0"] \o s

\* JsonValue::inner_value
inner_value(v) ==
  CASE v.t = "Null" -> <<"n", "u", "l", "l">>
    [] v.t = "Boolean" -> IF v.b THEN <<"t", "r", "u", "e">>
                          ELSE <<"f", "a", "l", "s", "e">>
    [] v.t = "Number" -> usize_to_string(v.n)
    [] v.t = "String" -> v.s
    [] v.t = "Array" -> <<"A", "r", "r", "a", "y">>
    [] v.t = "Object" -> <<"O", "b", "j", "e", "c", "t">>

\* BTreeMap::new, insert into an empty map, and extend.
BTreeMapNew == [k \in {} |-> <<>>]
Single(key, value) == [k \in {key} |-> value]
\* An extend that keeps the entry a key already has.
extend_keep_first(res, m) ==
  [k \in DOMAIN res \cup DOMAIN m |-> IF k \in DOMAIN res THEN res[k] ELSE m[k]]

extend(res, m) ==
  [k \in DOMAIN res \cup DOMAIN m |-> IF k \in DOMAIN m THEN m[k] ELSE res[k]]

\* What a call of to_flattened ends with: the map, or the panic of `expect`.
Flat(map) == [panic |-> FALSE, map |-> map]
FlatPanic == [panic |-> TRUE, map |-> BTreeMapNew]

RECURSIVE to_flattened(_, _)
RECURSIVE object_loop(_, _, _, _)
RECURSIVE array_loop(_, _, _, _)

\* for item in entries { ... res.extend(to_flattened(&item.value, Some(key))) }
object_loop(entries, prefix, i, res) ==
  IF i > Len(entries) THEN Flat(res)
  ELSE LET key == IF prefix.some
                  THEN prefix.v \o <<".">> \o entries[i].key
                  ELSE entries[i].key
       IN With(to_flattened(entries[i].value, Some(key)), LAMBDA r :
            IF r.panic THEN r
            ELSE object_loop(entries, prefix, i + 1, extend(res, r.map)))

\* for (index, item) in array.iter().enumerate() { ... }
array_loop(array, prefix, i, res) ==
  IF i > Len(array) THEN Flat(res)
  ELSE LET key == prefix \o <<".">> \o format_03(i - 1)
       IN With(to_flattened(array[i], Some(key)), LAMBDA r :
            IF r.panic THEN r
            ELSE array_loop(array, prefix, i + 1, extend(res, r.map)))

to_flattened(root, prefix) ==
  CASE root.t = "Object" -> object_loop(root.items, prefix, 1, BTreeMapNew)
    [] root.t = "Array" ->
         IF ~prefix.some THEN FlatPanic
         ELSE array_loop(root.items, prefix.v, 1, BTreeMapNew)
    [] OTHER ->
         IF ~prefix.some THEN FlatPanic
         ELSE Flat(Single(prefix.v, inner_value(root)))

\* A caller flattens a root value.
Flatten ==
  /\ pc = "flatten"
  /\ \E r \in {to_flattened(ret, NoPrefix)} :
       result' = IF r.panic THEN Panic
                 ELSE [tag |-> "Ok", value |-> r.map, error |-> NoError]
  /\ pc' = "done"
  /\ UNCHANGED <<input, lexer, current_token, peek_token, stack, ret, tokens>>

MaxEntries == 2

FlatScalars ==
  { FlatNull, FlatBoolean(TRUE), FlatBoolean(FALSE), FlatNumber(1),
    FlatNumber(30), FlatString(<<"x">>) }

\* What a property of the root may hold.
FlatInner ==
  FlatScalars \cup
  { FlatArray(<<>>), FlatArray(<<FlatNumber(1), FlatNumber(2)>>),
    FlatArray([i \in 1..11 |-> FlatNull]),
    FlatArray(<<FlatObject(<<JsonItem(<<"b">>, FlatNumber(1))>>)>>),
    FlatObject(<<>>), FlatObject(<<JsonItem(<<"b">>, FlatNumber(1))>>),
    FlatObject(<<JsonItem(<<"0", "0", "0">>, FlatString(<<"x">>))>>),
    FlatObject(<<JsonItem(<<"b">>, FlatNull), JsonItem(<<"b">>, FlatNumber(1))>>) }

FlatKeys == { <<"a">>, <<"b">>, <<"a", ".", "b">>, <<"a", ".", "0", "0", "0">> }

FlatItems == { JsonItem(k, v) : k \in FlatKeys, v \in FlatInner }

FlatRoots ==
  { FlatObject(items) :
      items \in UNION { [1..n -> FlatItems] : n \in 0..MaxEntries } }
  \cup FlatInner

InitFlatten ==
  /\ input = <<>>
  /\ lexer = LexerNew
  /\ current_token = TokenDefault
  /\ peek_token = TokenDefault
  /\ tokens = <<>>
  /\ stack = <<>>
  /\ ret \in FlatRoots
  /\ result = Running
  /\ pc = "flatten"

SpecFlatten == InitFlatten /\ [][Flatten]_vars

\* The text of the numbers the roots hold.
NumberText(n) ==
  CASE n = 1 -> <<"1">> [] n = 2 -> <<"2">> [] n = 30 -> <<"3", "0">>

\* A scalar as the flattened map shows it.
Stringified(v) ==
  CASE v.t = "Null" -> Null
    [] v.t = "Boolean" -> IF v.b THEN True ELSE False
    [] v.t = "Number" -> NumberText(v.n)
    [] v.t = "String" -> v.s

\* An array index as a path segment: three decimal digits.
IndexSegment(i) ==
  << DecimalDigits[((i \div 100) % 10) + 1], DecimalDigits[((i \div 10) % 10) + 1],
     DecimalDigits[(i % 10) + 1] >>

RECURSIVE Leaves(_, _)
\* The scalar leaves under v, each with its dotted path and its text; path
\* is the path of v, empty for the root.
Leaves(v, path) ==
  LET under(seg) == IF path = <<>> THEN seg ELSE path \o <<".">> \o seg
  IN CASE v.t = "Object" ->
            UNION { Leaves(v.items[i].value, under(v.items[i].key)) :
                      i \in 1..Len(v.items) }
       [] v.t = "Array" ->
            UNION { Leaves(v.items[i], under(IndexSegment(i - 1))) :
                      i \in 1..Len(v.items) }
       [] OTHER -> { [key |-> path, value |-> Stringified(v)] }

ExpectPeekFrame(p, kind) ==
  \E a \in {expect_peek(p, kind)} :
    IF p.peek_token.kind = kind
    THEN /\ a.ok
         /\ a.parser.current_token = p.peek_token
         /\ Len(a.parser.tokens) = Len(p.tokens) + 1
         /\ a.parser.peek_token = a.parser.tokens[Len(a.parser.tokens)].token
         /\ a.parser = parser_next_token(p)
    ELSE /\ ~a.ok
         /\ a.parser = p
         /\ a.err # {}
         /\ \A o \in a.err :
              /\ o.tag = "Err"
              /\ o.error.expected = <<kind>>
              /\ o.error.actual = p.peek_token.kind

\* C27: at each call of expect_peek(kind) (for the key and the colon of a
\* property, the opening brace of an object, the opening bracket of an
\* array): when the lookahead is of that kind the parser advances exactly
\* one token and Ok is returned; otherwise an ExpectedTokenError whose
\* expected list is that one kind is returned and current_token, peek_token
\* and the lexer are unchanged.
C27_ExpectPeek ==
  (pc = "run" /\ Top.st = "entry")
    => CASE Top.fn = "parse_property" ->
              /\ ExpectPeekFrame(Me, "String")
              /\ peek_token.kind = "String"
                   => ExpectPeekFrame(parser_next_token(Me), "Colon")
         [] Top.fn = "parse_object" -> ExpectPeekFrame(Me, "LBrace")
         [] Top.fn = "parse_array" -> ExpectPeekFrame(Me, "LBracket")
         [] OTHER -> TRUE

RECURSIVE TokenSequence(_, _)
\* The first n tokens the lexer gives when next_token is called from l on.
TokenSequence(l, n) ==
  IF n = 0 THEN <<>>
  ELSE With(next_token(l), LAMBDA r :
         <<r.token>> \o TokenSequence(r.lexer, n - 1))

\* C28: in a parser, peek_token is the token pulled last and current_token
\* the one pulled before it (the default Illegal token when only one was
\* pulled); the tokens pulled so far are the first tokens of the lexer's
\* sequence over the input, in order, none skipped and none read twice.
C28_Lookahead ==
  pc # "lex" /\ pc # "flatten"
    => /\ tokens # <<>>
       /\ peek_token = tokens[Len(tokens)].token
       /\ current_token = IF Len(tokens) = 1 THEN TokenDefault
                          ELSE tokens[Len(tokens) - 1].token
       /\ [i \in 1..Len(tokens) |-> tokens[i].token]
            = TokenSequence(LexerNew, Len(tokens))

\* A parse that ended after four tokens or more were pulled.
C28_LookaheadWitness ==
  /\ Done
  /\ Len(tokens) >= 4
  /\ current_token = tokens[Len(tokens) - 1].token
  /\ current_token # peek_token

\* C29: the column with_offset computes is never below zero, so a parse
\* that does not succeed returns Err and never aborts, whether the offending
\* token has multi-byte characters, stands at the end of the input or is the
\* first of its line.
C29_ColumnNotNegative ==
  (Done /\ result.tag # "Ok")
    => /\ result.tag = "Err"
       /\ result.error.column >= 0

RECURSIVE LeafList(_, _)
RECURSIVE LeafListFrom(_, _, _)
\* The scalar leaves under v in document order, each with its dotted path
\* and its text.
LeafList(v, path) ==
  IF v.t \in {"Object", "Array"} THEN LeafListFrom(v, path, 1)
  ELSE << [key |-> path, value |-> Stringified(v)] >>

\* The leaves under the members of v from the i-th on.
LeafListFrom(v, path, i) ==
  IF i > Len(v.items) THEN <<>>
  ELSE LET seg == IF v.t = "Object" THEN v.items[i].key
                  ELSE IndexSegment(i - 1)
           child == IF v.t = "Object" THEN v.items[i].value ELSE v.items[i]
           under == IF path = <<>> THEN seg ELSE path \o <<".">> \o seg
       IN LeafList(child, under) \o LeafListFrom(v, path, i + 1)

\* C30 as stated: flattening is injective on leaves, the flattened map of an
\* object has exactly one entry per scalar leaf.
C30_OneEntryPerLeaf ==
  (Done /\ ret.t = "Object")
    => /\ result.tag = "Ok"
       /\ Cardinality(DOMAIN result.value) = Len(LeafList(ret, <<>>))

\* C30, amended: the flattened map of an object has exactly one entry per
\* distinct leaf path, so leaves with different paths have different keys
\* and a value whose leaves all have different paths has one entry per
\* leaf; where several leaves have the same path (a key repeated in an
\* object, a key that holds a dot or equals the path of an array element)
\* the entry holds the text of the last of them in document order.
C30_OneEntryPerPath ==
  (Done /\ ret.t = "Object")
    => \E ls \in {LeafList(ret, <<>>)} :
         /\ result.tag = "Ok"
         /\ DOMAIN result.value = { ls[i].key : i \in 1..Len(ls) }
         /\ \A i \in 1..Len(ls) :
              (\A j \in (i + 1)..Len(ls) : ls[j].key # ls[i].key)
                => result.value[ls[i].key] = ls[i].value
         /\ (\A i, j \in 1..Len(ls) : i # j => ls[i].key # ls[j].key)
              => Cardinality(DOMAIN result.value) = Len(ls)

\* {"a": 1, "a": 30} flattens to the one entry a -> 30.
C30_OneEntryPerPathWitness ==
  /\ Done
  /\ ret = FlatObject(<<JsonItem(<<"a">>, FlatNumber(1)),
                        JsonItem(<<"a">>, FlatNumber(30))>>)
  /\ result.tag = "Ok"
  /\ DOMAIN result.value = { <<"a">> }
  /\ result.value[<<"a">>] = <<"3", "0">>
====
